---------------------------- MODULE Spec2Model ----------------------------
(***************************************************************************)
(* A model of ProjectDashboard.py, the Streamlit script of the Global      *)
(* Temperature dashboard.  The script is a straight line of pandas         *)
(* statements that Streamlit executes from the top on every user           *)
(* interaction.  The state is the four CSV files on disk, the widget       *)
(* values Streamlit keeps for the session, the script's namespace (ns:     *)
(* one field per Python name, bound as the script binds it) and the        *)
(* position of the run (pc).                                               *)
(*                                                                         *)
(* A DataFrame is [cols |-> sequence of column names, rows |-> sequence    *)
(* of records].  A float is an option: <<>> is NaN and <<x>> the value x;  *)
(* means and standard deviations are fixed-point with Scale units per 1.   *)
(***************************************************************************)
EXTENDS Integers, Sequences, FiniteSets, TLC

VARIABLES annual_csv, gas_csv, monthly_csv, contribution_csv,
          session, ns, pc

vars == <<annual_csv, gas_csv, monthly_csv, contribution_csv, session, ns, pc>>

files == <<annual_csv, gas_csv, monthly_csv, contribution_csv>>

-----------------------------------------------------------------------------
(* Bounds of the model and constants of the program *)

MaxTemp == 2

NumMonths == 2

YearsAfter == 2

Scale == 10

PivotYear == 1992

BucketWidth == 5

SampleSize == 10

FirstYear == PivotYear - 1

LastYear == PivotYear + YearsAfter

Years == FirstYear..LastYear

-----------------------------------------------------------------------------
(* Floats *)

NaN == <<>>

Num(x) == <<x>>

IsNaN(v) == v = <<>>

Val(v) == v[1]

Temps == {Num(x) : x \in 0..MaxTemp} \cup {NaN}

-----------------------------------------------------------------------------
(* Sequences *)

Range(s) == {s[i] : i \in DOMAIN s}

\* The elements of s at the indices I, in the order of s.
AtIndices(s, I) ==
    [k \in 1..Cardinality(I) |->
        s[CHOOSE i \in I : Cardinality({j \in I : j < i}) = k - 1]]

\* list(...) of Series.unique(): the distinct values in order of first appearance.
Unique(s) ==
    AtIndices(s, {i \in DOMAIN s : \A j \in 1..(i - 1) : s[j] # s[i]})

RECURSIVE Concat(_)
Concat(ss) == IF ss = <<>> THEN <<>> ELSE Head(ss) \o Concat(Tail(ss))

RECURSIVE SumSeq(_)
SumSeq(s) == IF s = <<>> THEN 0 ELSE Head(s) + SumSeq(Tail(s))

\* A stable sort of s by the integer keys k (k[i] is the key of s[i]).
SortByKeys(s, k) ==
    LET before(i) == {j \in DOMAIN s : k[j] < k[i] \/ (k[j] = k[i] /\ j < i)}
    IN  [n \in DOMAIN s |-> s[CHOOSE i \in DOMAIN s : Cardinality(before(i)) = n - 1]]

\* Python's order of the strings the script sorts (code-point order).
NameOrder ==
    << "Chile", "Developed", "Developing", "India",
       "Least developed countries (Jones et al.)", "OECD (Jones et al.)",
       "USA", "World" >>

StrRank(s) == CHOOSE i \in DOMAIN NameOrder : NameOrder[i] = s

\* sorted(list of strings)
SortedStrings(s) == SortByKeys(s, [i \in DOMAIN s |-> StrRank(s[i])])

\* sorted(list of integers)
SortedInts(s) == SortByKeys(s, s)

\* The integers lo..hi in order.
IntSeq(lo, hi) == [i \in 1..(hi - lo + 1) |-> lo + i - 1]

-----------------------------------------------------------------------------
(* DataFrames *)

Table(cols, rows) == [cols |-> cols, rows |-> rows]

\* df[mask]: the rows whose mask entry is true, in order, with the same columns.
Mask(t, m) == Table(t.cols, AtIndices(t.rows, {i \in DOMAIN t.rows : m[i]}))

Column(t, c) == [i \in DOMAIN t.rows |-> t.rows[i][c]]

RowSet(t) == Range(t.rows)

IsEmpty(t) == t.rows = <<>>

\* df[name] = values: the column is replaced, or appended when it is new.
WithColumn(t, name, values) ==
    Table(IF name \in Range(t.cols) THEN t.cols ELSE Append(t.cols, name),
          [i \in DOMAIN t.rows |->
              [c \in (DOMAIN t.rows[i]) \cup {name} |->
                  IF c = name THEN values[i] ELSE t.rows[i][c]]])

\* df.rename(columns={old: new})
Rename(t, old, new) ==
    Table([i \in DOMAIN t.cols |-> IF t.cols[i] = old THEN new ELSE t.cols[i]],
          [i \in DOMAIN t.rows |->
              [c \in ((DOMAIN t.rows[i]) \ {old}) \cup {new} |->
                  IF c = new THEN t.rows[i][old] ELSE t.rows[i][c]]])

\* df.drop(columns=[name])
DropColumn(t, name) ==
    Table(SelectSeq(t.cols, LAMBDA c : c # name),
          [i \in DOMAIN t.rows |->
              [c \in (DOMAIN t.rows[i]) \ {name} |-> t.rows[i][c]]])

-----------------------------------------------------------------------------
(* The CSV files.  The annual file is wide: one row per country and one    *)
(* column per year, named by the year's digits.  Of its five identifier    *)
(* columns the model keeps Country and ISO3; ISO2, Indicator and Unit are  *)
(* carried by melt unchanged and read by no statement.                     *)

Iso3Of(country) ==
    CASE country = "USA" -> "USA"
      [] country = "Chile" -> "CHL"
      [] country = "India" -> "IND"
      [] OTHER -> "OWID_WRL"

AnnualCols(ys) == <<"Country", "ISO3">> \o [i \in DOMAIN ys |-> ToString(ys[i])]

\* vals[country][y] is the cell of the country's row under the column of year y.
AnnualFile(countries, ys, vals) ==
    Table(AnnualCols(ys),
          [i \in DOMAIN countries |->
              [c \in Range(AnnualCols(ys)) |->
                  IF c = "Country" THEN countries[i]
                  ELSE IF c = "ISO3" THEN Iso3Of(countries[i])
                  ELSE vals[countries[i]][CHOOSE y \in Range(ys) : ToString(y) = c]]])

MonthNames ==
    << "January", "February", "March", "April", "May", "June", "July",
       "August", "September", "October", "November", "December" >>

MonthlyCols == <<"Entity", "Year", "Month", "Month_named", "Mean_Temp">>

\* One row per (entity, year, month), in that order.
MonthlyFile(ents, ys) ==
    LET per == Len(ys) * NumMonths
        row(k) ==
            LET e == ents[((k - 1) \div per) + 1]
                y == ys[(((k - 1) % per) \div NumMonths) + 1]
                m == ((k - 1) % NumMonths) + 1
            IN  [Entity |-> e, Year |-> y, Month |-> m,
                 Month_named |-> MonthNames[m],
                 Mean_Temp |-> Num((y + m + Len(e)) % (MaxTemp + 1))]
    IN  Table(MonthlyCols, [k \in 1..(Len(ents) * per) |-> row(k)])

GasHeaders ==
    << "Change in temperature from nitrous oxide, fossil fuels and industry",
       "Change in temperature from nitrous oxide, agriculture and land use",
       "Change in temperature from methane, fossil fuels and industry",
       "Change in temperature from methane, agriculture and land use",
       "Change in temperature from CO2, fossil fuels and industry",
       "Change in temperature from CO2, agriculture and land use" >>

GasCols == <<"Entity", "Code", "Year">> \o GasHeaders

\* One row per (entity, year), in that order.
GasFile(ents, ys) ==
    LET row(k) ==
            LET e == ents[((k - 1) \div Len(ys)) + 1]
                y == ys[((k - 1) % Len(ys)) + 1]
            IN  [c \in Range(GasCols) |->
                    IF c = "Entity" THEN e
                    ELSE IF c = "Code" THEN Iso3Of(e)
                    ELSE IF c = "Year" THEN y
                    ELSE Num((y + Len(c)) % (MaxTemp + 1))]
    IN  Table(GasCols, [k \in 1..(Len(ents) * Len(ys)) |-> row(k)])

ShareCol == "Share of contribution to global warming"

ContributionCols == <<"Entity", "Year", ShareCol>>

ContributionFile(ents, ys) ==
    LET row(k) ==
            LET e == ents[((k - 1) \div Len(ys)) + 1]
                y == ys[((k - 1) % Len(ys)) + 1]
            IN  [c \in Range(ContributionCols) |->
                    IF c = "Entity" THEN e
                    ELSE IF c = "Year" THEN y
                    ELSE Num((y + Len(e)) % (MaxTemp + 1))]
    IN  Table(ContributionCols, [k \in 1..(Len(ents) * Len(ys)) |-> row(k)])

-----------------------------------------------------------------------------
(* Data load and reshape (lines 16-67) *)

\* c.isdigit(), for the headers a file of the model can have.
IsDigit(c) == \E y \in Years : ToString(y) = c

\* int(c) of a header of digits: the number whose decimal form is c.
ParseInt(c) == CHOOSE y \in Years : ToString(y) = c

YearColumns(df) == SelectSeq(df.cols, LAMBDA c : IsDigit(c))

\* df.melt(id_vars, value_vars, var_name, value_name): for each value column
\* in turn, one row per row of df.
Melt(df, id_vars, value_vars, var_name, value_name) ==
    Table(id_vars \o <<var_name, value_name>>,
          Concat([j \in DOMAIN value_vars |->
              [i \in DOMAIN df.rows |->
                  [c \in Range(id_vars) \cup {var_name, value_name} |->
                      IF c = var_name THEN value_vars[j]
                      ELSE IF c = value_name THEN df.rows[i][value_vars[j]]
                      ELSE df.rows[i][c]]]]))

\* df[col] = df[col].astype(int)
AsTypeInt(t, col) ==
    WithColumn(t, col, [i \in DOMAIN t.rows |-> ParseInt(t.rows[i][col])])

developed_iso3 ==
    {"USA", "CAN", "GBR", "DEU", "FRA", "JPN", "AUS", "NZL", "NOR", "SWE", "CHE"}

\* As DevStatusOf with the two labels exchanged.
DevStatusOfInverted(x) == IF x \in developed_iso3 THEN "Developing" ELSE "Developed"

DevStatusOf(x) == IF x \in developed_iso3 THEN "Developed" ELSE "Developing"

\* df_long as lines 17-37 leave it.
ReshapeAnnual(df) ==
    LET long == AsTypeInt(Melt(df, <<"Country", "ISO3">>, YearColumns(df),
                               "Year", "TempChange"), "Year")
    IN  WithColumn(long, "DevStatus",
                   [i \in DOMAIN long.rows |-> DevStatusOf(long.rows[i].ISO3)])

MonthlyValueCol == "Monthly Average Temperature Change (C)"

YearlyValueCol == "Yearly Average Temperature Change (C)"

\* df_monthly as lines 48-50 leave it: a Date of (Year, Month, day 1), and
\* Mean_Temp renamed.
LoadMonthly(csv) ==
    Rename(WithColumn(csv, "Date",
                      [i \in DOMAIN csv.rows |->
                          <<csv.rows[i].Year, csv.rows[i].Month, 1>>]),
           "Mean_Temp", MonthlyValueCol)

\* [x for x in data_long_list if x in data_contribution_list and df_monthly_list]:
\* Python reads the condition as (x in data_contribution_list) and
\* bool(df_monthly_list), and a list is true when it is not empty.
InAll(data_long_list, data_contribution_list, df_monthly_list) ==
    SelectSeq(data_long_list,
              LAMBDA x : x \in Range(data_contribution_list)
                         /\ df_monthly_list # <<>>)

YearAll == <<>>

YearOption(y) == <<y>>

MinOf(s) == CHOOSE x \in Range(s) : \A y \in Range(s) : x <= y

MaxOf(s) == CHOOSE x \in Range(s) : \A y \in Range(s) : x >= y

\* The names lines 16-67 bind, read from the files.
Loaded ==
    LET df_long == ReshapeAnnual(annual_csv)
        df_monthly == LoadMonthly(monthly_csv)
        in_all == InAll(Unique(Column(df_long, "Country")),
                        Unique(Column(contribution_csv, "Entity")),
                        Unique(Column(df_monthly, "Entity")))
        years == SortedInts(Unique(Column(df_long, "Year")))
    IN  [df_long |-> df_long,
         df2 |-> gas_csv,
         df_monthly |-> df_monthly,
         df_contribution |-> contribution_csv,
         in_all |-> in_all,
         all_countries |-> <<"All">> \o SortedStrings(in_all),
         all_years |-> <<YearAll>> \o [i \in DOMAIN years |-> YearOption(years[i])],
         year_min |-> MinOf(Column(df_long, "Year")),
         year_max |-> MaxOf(Column(df_long, "Year"))]

\* As LoadStep with a name read from its file only when it is not yet bound.
LoadStepCached(n) == n @@ Loaded

\* The namespace n after lines 16-67: each of the names is bound anew,
\* whatever it was bound to.
LoadStep(n) == Loaded @@ n

Load ==
    /\ pc = "load"
    /\ ns' = LoadStep(ns)
    /\ pc' = "widgets"
    /\ UNCHANGED <<files, session>>

-----------------------------------------------------------------------------
(* Sidebar widgets (lines 69-80).  A widget with a key returns the value   *)
(* the session holds under the key, or its default when the session holds  *)
(* none.                                                                   *)

Selectbox(key, options) ==
    IF key \in DOMAIN session /\ session[key] \in Range(options)
    THEN session[key] ELSE options[1]

Slider(key, default) ==
    IF key \in DOMAIN session THEN session[key] ELSE default

WidgetsStep(n) ==
    [chart_country |-> Selectbox("chart_country", n.all_countries),
     chart_year |-> Selectbox("chart_year", n.all_years),
     dev_year_range |-> Slider("dev_year_range", <<n.year_min, n.year_max>>)]
    @@ n

Widgets ==
    /\ pc = "widgets"
    /\ ns' = WidgetsStep(ns)
    /\ pc' = "filters"
    /\ UNCHANGED <<files, session>>

-----------------------------------------------------------------------------
(* Data after filters (lines 82-110) *)

\* As YearRangeFilter with the upper bound left out of the range.
YearRangeFilterExclusive(t, r) ==
    Mask(t, [i \in DOMAIN t.rows |->
                t.rows[i].Year >= r[1] /\ t.rows[i].Year < r[2]])

\* t[(t["Year"] >= r[0]) & (t["Year"] <= r[1])].copy()
YearRangeFilter(t, r) ==
    Mask(t, [i \in DOMAIN t.rows |->
                t.rows[i].Year >= r[1] /\ t.rows[i].Year <= r[2]])

\* if chart_country != "All": t = t[t["Country"] == chart_country]
CountryFilter(t, chart_country) ==
    IF chart_country # "All"
    THEN Mask(t, [i \in DOMAIN t.rows |-> t.rows[i].Country = chart_country])
    ELSE t

\* if chart_year != "All": t = t[t["Year"] == int(chart_year)]
YearFilter(t, chart_year) ==
    IF chart_year # YearAll
    THEN Mask(t, [i \in DOMAIN t.rows |-> t.rows[i].Year = Val(chart_year)])
    ELSE t

\* As FilteredChart with the year selection taken from df_long, not from
\* the view filtered so far.
FilteredChartYearOfSource(df_long, chart_country, chart_year, dev_year_range) ==
    IF chart_year # YearAll
    THEN YearFilter(df_long, chart_year)
    ELSE CountryFilter(YearRangeFilter(df_long, dev_year_range), chart_country)

FilteredChart(df_long, chart_country, chart_year, dev_year_range) ==
    YearFilter(CountryFilter(YearRangeFilter(df_long, dev_year_range),
                             chart_country),
               chart_year)

FilteredChartMonthly(df_monthly, chart_year, dev_year_range) ==
    YearFilter(YearRangeFilter(df_monthly, dev_year_range), chart_year)

FiltersStep(n) ==
    [filtered_chart |->
         FilteredChart(n.df_long, n.chart_country, n.chart_year, n.dev_year_range),
     filtered_chart_monthly |->
         FilteredChartMonthly(n.df_monthly, n.chart_year, n.dev_year_range),
     df2 |-> YearRangeFilter(n.df2, n.dev_year_range)]
    @@ n

Filters ==
    /\ pc = "filters"
    /\ ns' = FiltersStep(ns)
    /\ pc' = "charts_tab"
    /\ UNCHANGED <<files, session>>

-----------------------------------------------------------------------------
(* Aggregation *)

StringColumns == {"Country", "Entity", "DevStatus", "ISO3", "series"}

KeyBase == LastYear + Len(NameOrder) + 1

\* The place of a row in the order of its group keys (keys compare left to
\* right; strings in Python's order, integers by value).
RECURSIVE KeyRank(_, _)
KeyRank(row, keys) ==
    IF keys = <<>> THEN 0
    ELSE LET k == keys[Len(keys)]
             r == IF k \in StringColumns THEN StrRank(row[k]) ELSE row[k]
         IN  r + KeyBase * KeyRank(row, SubSeq(keys, 1, Len(keys) - 1))

\* The distinct key tuples of t, as rows of the key columns, sorted: the
\* groups of t.groupby(keys).
Groups(t, keys) ==
    LET ks == Unique([i \in DOMAIN t.rows |-> [c \in Range(keys) |-> t.rows[i][c]]])
    IN  SortByKeys(ks, [i \in DOMAIN ks |-> KeyRank(ks[i], keys)])

\* The values of column col in the rows of group g, NaN dropped.
GroupValues(t, g, col) ==
    LET rows == SelectSeq(t.rows, LAMBDA r : (\A c \in DOMAIN g : r[c] = g[c])
                                             /\ ~IsNaN(r[col]))
    IN  [i \in DOMAIN rows |-> Val(rows[i][col])]

\* The mean, in Scale units per 1; NaN of no values.
Mean(vs) == IF vs = <<>> THEN NaN ELSE Num((SumSeq(vs) * Scale) \div Len(vs))

Isqrt(n) == CHOOSE r \in 0..n : r * r <= n /\ (r + 1) * (r + 1) > n

\* As Std with n in the denominator (the population standard deviation).
StdPopulation(vs) ==
    IF Len(vs) < 1 THEN NaN
    ELSE LET n == Len(vs)
             sq == SumSeq([i \in DOMAIN vs |-> vs[i] * vs[i]])
             sm == SumSeq(vs)
         IN  Num(Isqrt(((n * sq - sm * sm) * Scale * Scale) \div (n * n)))

\* The sample standard deviation (n - 1 in the denominator), in Scale units
\* per 1; NaN of fewer than two values.
Std(vs) ==
    IF Len(vs) < 2 THEN NaN
    ELSE LET n == Len(vs)
             sq == SumSeq([i \in DOMAIN vs |-> vs[i] * vs[i]])
             sm == SumSeq(vs)
         IN  Num(Isqrt(((n * sq - sm * sm) * Scale * Scale) \div (n * (n - 1))))

\* t.groupby(keys)[col].mean().reset_index()
GroupMean(t, keys, col) ==
    LET gs == Groups(t, keys)
    IN  Table(keys \o <<col>>,
              [i \in DOMAIN gs |->
                  [c \in Range(keys) \cup {col} |->
                      IF c = col THEN Mean(GroupValues(t, gs[i], col))
                      ELSE gs[i][c]]])

\* t.groupby(key)[col].std().reset_index(name=name)
GroupStd(t, key, col, name) ==
    LET gs == Groups(t, <<key>>)
    IN  Table(<<key, name>>,
              [i \in DOMAIN gs |->
                  [c \in {key, name} |->
                      IF c = name THEN Std(GroupValues(t, gs[i], col))
                      ELSE gs[i][c]]])

\* The columns of r that are not join keys.
ExtraCols(r, on) == SelectSeq(r.cols, LAMBDA c : c \notin Range(on))

\* pd.merge(l, r, on=on, how=how) for how in {"inner", "left"}: the rows of l
\* in order, each joined with every row of r that has its keys; a left merge
\* keeps a row of l without a match, with NaN in the columns of r.
Merge(l, r, on, how) ==
    LET extra == ExtraCols(r, on)
        joined(i) ==
            LET ms == SelectSeq(r.rows,
                                LAMBDA x : \A c \in Range(on) : x[c] = l.rows[i][c])
            IN  IF ms = <<>>
                THEN IF how = "left"
                     THEN << [c \in Range(extra) |-> NaN] @@ l.rows[i] >>
                     ELSE <<>>
                ELSE [j \in DOMAIN ms |-> ms[j] @@ l.rows[i]]
    IN  Table(l.cols \o extra, Concat([i \in DOMAIN l.rows |-> joined(i)]))

\* a - b on floats
FSub(a, b) == IF IsNaN(a) \/ IsNaN(b) THEN NaN ELSE Num(Val(a) - Val(b))

\* a < x on a float and a number: false of NaN
FLess(a, x) == ~IsNaN(a) /\ Val(a) < x

\* t.sort_values(col) of a float column: ascending, NaN last.
SortValues(t, col) ==
    LET nums == SelectSeq(t.rows, LAMBDA r : ~IsNaN(r[col]))
        nans == SelectSeq(t.rows, LAMBDA r : IsNaN(r[col]))
    IN  Table(t.cols,
              SortByKeys(nums, [i \in DOMAIN nums |-> Val(nums[i][col])]) \o nans)

-----------------------------------------------------------------------------
(* Charts tab (lines 125-287) *)

\* Lines 128-132: the scatter plot's source.
ScatterSrc(filtered_chart, chart_country) ==
    IF chart_country = "All"
    THEN LET u == Unique(Column(filtered_chart, "Country"))
             sample_countries == SubSeq(u, 1, IF Len(u) < SampleSize THEN Len(u) ELSE SampleSize)
         IN  Mask(filtered_chart,
                  [i \in DOMAIN filtered_chart.rows |->
                      filtered_chart.rows[i].Country \in Range(sample_countries)])
    ELSE filtered_chart

\* As EntityName without the "World" case.
EntityNameAsIs(chart_country) == chart_country

\* Lines 157-162: the monthly rows of the chosen entity, of "World" for "All".
EntityName(chart_country) == IF chart_country = "All" THEN "World" ELSE chart_country

\* As MonthlyOfEntity without the entity mask.
MonthlyOfEntityAll(filtered_chart_monthly, chart_country) == filtered_chart_monthly

MonthlyOfEntity(filtered_chart_monthly, chart_country) ==
    Mask(filtered_chart_monthly,
         [i \in DOMAIN filtered_chart_monthly.rows |->
             filtered_chart_monthly.rows[i].Entity = EntityName(chart_country)])

\* Line 168: the mean of each (Year, Entity), under the yearly name.
YearlyAverages(df_monthly_filtered) ==
    Rename(GroupMean(df_monthly_filtered, <<"Year", "Entity">>, MonthlyValueCol),
           MonthlyValueCol, YearlyValueCol)

\* Lines 192-201: the countries whose standard deviation fell from the years
\* up to PivotYear to the years after it, by the fall.
Decreasing(stats_base) ==
    LET early == GroupStd(Mask(stats_base,
                               [i \in DOMAIN stats_base.rows |->
                                   stats_base.rows[i].Year <= PivotYear]),
                          "Country", "TempChange", "Std_Early")
        late == GroupStd(Mask(stats_base,
                              [i \in DOMAIN stats_base.rows |->
                                  stats_base.rows[i].Year >= PivotYear + 1]),
                         "Country", "TempChange", "Std_Late")
        merged == Merge(early, late, <<"Country">>, "inner")
        std_comp == WithColumn(merged, "Delta_Std",
                               [i \in DOMAIN merged.rows |->
                                   FSub(merged.rows[i].Std_Late,
                                        merged.rows[i].Std_Early)])
    IN  SortValues(Mask(std_comp,
                        [i \in DOMAIN std_comp.rows |->
                            FLess(std_comp.rows[i].Delta_Std, 0)]),
                   "Delta_Std")

\* Line 202: the axis bound, -0.1 when there is no bar.
Xmin(decreasing) ==
    IF ~IsEmpty(decreasing)
    THEN MinOf([i \in DOMAIN decreasing.rows |-> Val(decreasing.rows[i].Delta_Std)])
    ELSE 0 - (Scale \div 10)

\* Lines 234-237
GasData(df2, entity) ==
    Mask(df2, [i \in DOMAIN df2.rows |-> df2.rows[i].Entity = EntityName(entity)])

\* The phrases of a gas column's header that the script tests for.
HeaderPhrases(c) ==
    CASE c = GasHeaders[1] -> {"Change in", "nitrous oxide", "fossil fuels"}
      [] c = GasHeaders[2] -> {"Change in", "nitrous oxide"}
      [] c = GasHeaders[3] -> {"Change in", "methane", "fossil fuels"}
      [] c = GasHeaders[4] -> {"Change in", "methane"}
      [] c = GasHeaders[5] -> {"Change in", "fossil fuels"}
      [] c = GasHeaders[6] -> {"Change in"}
      [] OTHER -> {}

\* Line 243
GasColumns(df2) == SelectSeq(df2.cols, LAMBDA c : "Change in" \in HeaderPhrases(c))

\* Lines 245-255
Shortened(col) ==
    IF "nitrous oxide" \in HeaderPhrases(col) /\ "fossil fuels" \in HeaderPhrases(col)
    THEN "N2O_FF&I"
    ELSE IF "nitrous oxide" \in HeaderPhrases(col) THEN "N2O_AgLU"
    ELSE IF "methane" \in HeaderPhrases(col) /\ "fossil fuels" \in HeaderPhrases(col)
    THEN "CH4_FF&I"
    ELSE IF "methane" \in HeaderPhrases(col) THEN "CH4_AgLU"
    ELSE IF "fossil fuels" \in HeaderPhrases(col) THEN "CO2_FF&I"
    ELSE "CO2_AgLU"

\* gas_df.rename(columns=shortened_columns)
RECURSIVE RenameAll(_, _)
RenameAll(t, cols) ==
    IF cols = <<>> THEN t
    ELSE RenameAll(Rename(t, Head(cols), Shortened(Head(cols))), Tail(cols))

\* Lines 257-259
GasDf(df2, chart_country) ==
    RenameAll(DropColumn(GasData(df2, chart_country), "Code"), GasColumns(df2))

\* Lines 261-266
GasLong(gas_df, gas_cols) ==
    Melt(gas_df, <<"Year">>, [i \in DOMAIN gas_cols |-> Shortened(gas_cols[i])],
         "series", "Temp Change")

ChartsStep(n) ==
    LET df_monthly_filtered == MonthlyOfEntity(n.filtered_chart_monthly, n.chart_country)
        yearly_averages == YearlyAverages(df_monthly_filtered)
        decreasing == Decreasing(n.df_long)
        gas_df == GasDf(n.df2, n.chart_country)
    IN  [scatter_src |-> ScatterSrc(n.filtered_chart, n.chart_country),
         name |-> EntityName(n.chart_country),
         yearly_averages |-> yearly_averages,
         df_monthly_filtered |->
             Merge(df_monthly_filtered, yearly_averages, <<"Year", "Entity">>, "left"),
         gas_df |-> gas_df,
         gas_long |-> GasLong(gas_df, GasColumns(n.df2))]
        @@ (IF n.chart_country = "All"
            THEN [decreasing |-> decreasing,
                  xmin |-> Xmin(decreasing),
                  bar |-> <<decreasing>>]
            ELSE [bar |-> <<>>])
        @@ n

ChartsTab ==
    /\ pc = "charts_tab"
    /\ ns' = ChartsStep(ns)
    /\ pc' = "dev_tab"
    /\ UNCHANGED <<files, session>>

-----------------------------------------------------------------------------
(* Developed vs developing tab (lines 293-385) *)

\* Lines 300-303
DevAvg(df_long) == GroupMean(df_long, <<"Year", "DevStatus">>, "TempChange")

\* As WithYearGroup with the bucket written over the Year column.
WithYearGroupOverYear(df_long) ==
    WithColumn(WithColumn(df_long, "YearGroup",
                          [i \in DOMAIN df_long.rows |->
                              (df_long.rows[i].Year \div BucketWidth) * BucketWidth]),
               "Year",
               [i \in DOMAIN df_long.rows |->
                   (df_long.rows[i].Year \div BucketWidth) * BucketWidth])

\* Line 327
WithYearGroup(df_long) ==
    WithColumn(df_long, "YearGroup",
               [i \in DOMAIN df_long.rows |->
                   (df_long.rows[i].Year \div BucketWidth) * BucketWidth])

\* Lines 328-331
DevBar(df_long) == GroupMean(df_long, <<"YearGroup", "DevStatus">>, "TempChange")

Blocs == {"OECD (Jones et al.)", "Least developed countries (Jones et al.)"}

\* Line 355
FiltContribution(df_contribution) ==
    Mask(df_contribution,
         [i \in DOMAIN df_contribution.rows |->
             df_contribution.rows[i].Entity \in Blocs])

DevStep(n) ==
    [dev_avg |-> DevAvg(n.df_long),
     df_long |-> WithYearGroup(n.df_long),
     dev_bar |-> DevBar(WithYearGroup(n.df_long)),
     filt_contribution |-> FiltContribution(n.df_contribution)]
    @@ n

DevTab ==
    /\ pc = "dev_tab"
    /\ ns' = DevStep(ns)
    /\ pc' = "data_tab"
    /\ UNCHANGED <<files, session>>

-----------------------------------------------------------------------------
(* Data tab (lines 391-409): four tables are shown, nothing is bound. *)

DataTab ==
    /\ pc = "data_tab"
    /\ pc' = "done"
    /\ UNCHANGED <<files, session, ns>>

-----------------------------------------------------------------------------
(* User interaction.  Changing a widget stores the new value in the        *)
(* session under the widget's key and makes Streamlit execute the script   *)
(* again from its first line.  A run is synchronous, so the change is      *)
(* served when the run before it has completed.  Streamlit executes each   *)
(* run in a fresh namespace (Rerun); RerunKeep is the weaker assumption    *)
(* that the names of the run before are still bound when the script        *)
(* starts again.                                                           *)

RangeOptions ==
    {<<a, b>> : a \in ns.year_min..ns.year_max, b \in ns.year_min..ns.year_max}

Interact ==
    /\ pc = "done"
    /\ \/ \E c \in Range(ns.all_countries) :
            /\ c # ns.chart_country
            /\ session' = [chart_country |-> c] @@ session
       \/ \E y \in Range(ns.all_years) :
            /\ y # ns.chart_year
            /\ session' = [chart_year |-> y] @@ session
       \/ \E r \in RangeOptions :
            /\ r[1] <= r[2]
            /\ r # ns.dev_year_range
            /\ session' = [dev_year_range |-> r] @@ session
    /\ pc' = "load"
    /\ UNCHANGED files

Rerun == Interact /\ ns' = <<>>

RerunKeep == Interact /\ ns' = ns

-----------------------------------------------------------------------------
(* The files a session starts from *)

AllYears == IntSeq(FirstYear, LastYear)

MainCountries == <<"USA", "Chile", "India">>

MainVals ==
    [c \in Range(MainCountries) |->
        [y \in Years |->
            IF c = "Chile" /\ y = FirstYear THEN NaN
            ELSE IF c = "USA" THEN Num(((y - FirstYear) * (y - FirstYear)) % (MaxTemp + 1))
            ELSE IF c = "India"
                 THEN (IF y = FirstYear THEN Num(0)
                       ELSE IF y = PivotYear THEN Num(MaxTemp) ELSE Num(1))
            ELSE Num((2 * (y - FirstYear)) % (MaxTemp + 1))]]

ContributionEntityLists ==
    { <<"USA", "India", "OECD (Jones et al.)", "Least developed countries (Jones et al.)">>,
      <<"OECD (Jones et al.)">> }

MonthlyEntityLists == { <<"World", "USA">>, <<>> }

GasEntityLists == { <<"World", "USA">>, <<"USA", "India">> }

GasYears == IntSeq(FirstYear - 1, PivotYear + 1)

ContributionYears == IntSeq(PivotYear, PivotYear + 1)

StartOfSession ==
    /\ session = <<>>
    /\ ns = <<>>
    /\ pc = "load"

Init ==
    /\ annual_csv = AnnualFile(MainCountries, AllYears, MainVals)
    /\ gas_csv \in {GasFile(e, GasYears) : e \in GasEntityLists}
    /\ monthly_csv \in {MonthlyFile(e, AllYears) : e \in MonthlyEntityLists}
    /\ contribution_csv \in
           {ContributionFile(e, ContributionYears) : e \in ContributionEntityLists}
    /\ StartOfSession

Run == Load \/ Widgets \/ Filters \/ ChartsTab \/ DevTab \/ DataTab

Next == Run \/ Rerun

Spec == Init /\ [][Next]_vars

\* A single run on an annual file in which one country's cells take every
\* value: the inputs of the variability table.
FixedVals ==
    [c \in {"India", "Chile"} |->
        [y \in Years |->
            IF y = FirstYear THEN Num(0)
            ELSE IF y = PivotYear THEN (IF c = "India" THEN Num(MaxTemp) ELSE Num(1))
            ELSE Num(0)]]

InitStd ==
    /\ annual_csv \in
           {AnnualFile(<<"USA", "India", "Chile">>, AllYears,
                       [c \in {"USA", "India", "Chile"} |->
                           IF c = "USA" THEN v ELSE FixedVals[c]]) :
               v \in [Years -> Temps]}
    /\ gas_csv = GasFile(<<"World">>, ContributionYears)
    /\ monthly_csv = MonthlyFile(<<"World">>, ContributionYears)
    /\ contribution_csv = ContributionFile(<<"OECD (Jones et al.)">>, ContributionYears)
    /\ StartOfSession

SpecStd == InitStd /\ [][Run]_vars

\* A session whose runs find the names of the run before still bound.
InitKeep ==
    /\ annual_csv = AnnualFile(<<"USA", "India">>, ContributionYears, MainVals)
    /\ gas_csv = GasFile(<<"World", "USA">>, GasYears)
    /\ monthly_csv = MonthlyFile(<<"World", "USA">>, ContributionYears)
    /\ contribution_csv \in
           {ContributionFile(e, ContributionYears) : e \in ContributionEntityLists}
    /\ StartOfSession

NextKeep == Run \/ RerunKeep

SpecKeep == InitKeep /\ [][NextKeep]_vars

-----------------------------------------------------------------------------
(* Where a run stands *)

AfterLoad == pc # "load"

AfterFilters == pc \in {"charts_tab", "dev_tab", "data_tab", "done"}

AfterCharts == pc \in {"dev_tab", "data_tab", "done"}

AfterDev == pc \in {"data_tab", "done"}

\* The long annual table as load and reshape leave it.
LongAnnual == ReshapeAnnual(annual_csv)

InRange(r, range) == r.Year >= range[1] /\ r.Year <= range[2]

\* Whether row r satisfies the country selection c / the year selection y.
EntityOk(r, c) == c = "All" \/ r.Country = c

YearOk(r, y) == y = YearAll \/ r.Year = Val(y)

\* How many rows of table t satisfy all three predicates of the FilterState.
CountMatching(t, c, y, range) ==
    Cardinality({i \in DOMAIN t.rows :
        InRange(t.rows[i], range) /\ EntityOk(t.rows[i], c) /\ YearOk(t.rows[i], y)})

\* t's row sequence is a subsequence of u's, as multisets of rows.
SubTable(t, u) ==
    /\ t.cols = u.cols
    /\ \A r \in RowSet(t) :
           Cardinality({i \in DOMAIN t.rows : t.rows[i] = r})
               <= Cardinality({i \in DOMAIN u.rows : u.rows[i] = r})

-----------------------------------------------------------------------------
(* C1: for every FilterState, filtered_chart holds exactly the rows of the  *)
(* long annual table whose Year is within year_range (bounds included) and  *)
(* whose Country is the selected entity (or the entity is "All") and whose  *)
(* Year is the selected year (or the year is "All"): none that fails a      *)
(* predicate, none missing.                                                 *)
C1_FilteredChartExact ==
    AfterFilters =>
        /\ RowSet(ns.filtered_chart) =
               {r \in RowSet(LongAnnual) :
                   /\ InRange(r, ns.dev_year_range)
                   /\ EntityOk(r, ns.chart_country)
                   /\ YearOk(r, ns.chart_year)}
        /\ Len(ns.filtered_chart.rows) =
               CountMatching(LongAnnual, ns.chart_country, ns.chart_year,
                             ns.dev_year_range)

C1_Witness ==
    /\ pc = "done"
    /\ ns.chart_country # "All"
    /\ ns.chart_year # YearAll
    /\ ns.dev_year_range[1] > ns.year_min
    /\ ns.dev_year_range[2] = Val(ns.chart_year)
    /\ Len(ns.filtered_chart.rows) = 1

(* C8: a filtered view is a part of the view with fewer filters, which is  *)
(* a part of the source table: the rows for (entity, year, range) are among *)
(* those for (entity, range), which are among the source's; no filter adds  *)
(* a row.                                                                   *)
C8_MonotonicNarrowing ==
    AfterFilters =>
        /\ SubTable(ns.filtered_chart,
                    FilteredChart(LongAnnual, ns.chart_country, YearAll,
                                  ns.dev_year_range))
        /\ SubTable(FilteredChart(LongAnnual, ns.chart_country, YearAll,
                                  ns.dev_year_range),
                    FilteredChart(LongAnnual, "All", YearAll, ns.dev_year_range))
        /\ SubTable(FilteredChart(LongAnnual, "All", YearAll, ns.dev_year_range),
                    LongAnnual)
        /\ SubTable(ns.filtered_chart_monthly,
                    FilteredChartMonthly(ns.df_monthly, YearAll, ns.dev_year_range))
        /\ SubTable(FilteredChartMonthly(ns.df_monthly, YearAll, ns.dev_year_range),
                    ns.df_monthly)
        /\ SubTable(ns.df2, gas_csv)

C8_Witness ==
    /\ pc = "done"
    /\ ns.chart_country # "All"
    /\ ns.chart_year # YearAll
    /\ Len(ns.filtered_chart.rows) > 0
    /\ Len(ns.filtered_chart.rows) <
           Len(FilteredChart(LongAnnual, ns.chart_country, YearAll,
                             ns.dev_year_range).rows)
    /\ Len(ns.filtered_chart_monthly.rows) < Len(ns.df_monthly.rows)
    /\ Len(ns.df2.rows) < Len(gas_csv.rows)

(* C9: every row of the long annual table is labelled "Developed" exactly  *)
(* when its ISO3 is in the fixed developed set and "Developing" otherwise;  *)
(* each row has one of the two labels, and rows with the same ISO3 have     *)
(* the same label.                                                          *)
C9_DevStatusTotal ==
    AfterLoad =>
        /\ \A r \in RowSet(ns.df_long) :
               /\ r.DevStatus \in {"Developed", "Developing"}
               /\ r.DevStatus = "Developed" <=> r.ISO3 \in developed_iso3
        /\ \A r, q \in RowSet(ns.df_long) :
               r.ISO3 = q.ISO3 => r.DevStatus = q.DevStatus

C9_Witness ==
    /\ AfterLoad
    /\ \E r, q \in RowSet(ns.df_long) :
           /\ r.DevStatus = "Developed"
           /\ q.DevStatus = "Developing"
    /\ \E i, j \in DOMAIN ns.df_long.rows :
           i # j /\ ns.df_long.rows[i].ISO3 = ns.df_long.rows[j].ISO3

-----------------------------------------------------------------------------
\* The TempChange values, NaN dropped, of the rows of the long annual table
\* with year y and development status d.
TempsOf(y, d) ==
    LET rows == SelectSeq(LongAnnual.rows,
                          LAMBDA r : r.Year = y /\ r.DevStatus = d
                                     /\ ~IsNaN(r.TempChange))
    IN  [i \in DOMAIN rows |-> Val(rows[i].TempChange)]

\* The (Year, DevStatus) pairs of the long annual table with a year in range.
PairsIn(range) ==
    {<<r.Year, r.DevStatus>> : r \in {q \in RowSet(LongAnnual) : InRange(q, range)}}

(* C2: the line chart's source dev_avg has one row per (Year, DevStatus)   *)
(* pair, whose value is the mean of TempChange over the entities of the    *)
(* group; it has a row for a year only if the year is within year_range,   *)
(* and it does not depend on the selected entity or the selected year.     *)
C2_DevAvgWithinRange ==
    AfterDev =>
        /\ \A i \in DOMAIN ns.dev_avg.rows :
               LET r == ns.dev_avg.rows[i]
               IN  /\ InRange(r, ns.dev_year_range)
                   /\ r.TempChange = Mean(TempsOf(r.Year, r.DevStatus))
                   /\ \A j \in DOMAIN ns.dev_avg.rows :
                          (ns.dev_avg.rows[j].Year = r.Year
                           /\ ns.dev_avg.rows[j].DevStatus = r.DevStatus) => j = i
        /\ {<<r.Year, r.DevStatus>> : r \in RowSet(ns.dev_avg)}
               = PairsIn(ns.dev_year_range)

(* C5: every entity the country selector offers besides "All" is in all    *)
(* three source tables: the annual table's Country column, the             *)
(* contribution table's Entity column and the monthly table's Entity       *)
(* column.                                                                  *)
C5_InAllInAllThree ==
    AfterLoad =>
        \A x \in Range(ns.all_countries) \ {"All"} :
            /\ x \in Range(Column(annual_csv, "Country"))
            /\ x \in Range(Column(contribution_csv, "Entity"))
            /\ x \in Range(Column(monthly_csv, "Entity"))

-----------------------------------------------------------------------------
\* The values of the country's rows of the long annual table on one side of
\* the pivot year, NaN dropped.
SplitValues(country, late) ==
    LET rows == SelectSeq(LongAnnual.rows,
                          LAMBDA r : r.Country = country
                                     /\ ~IsNaN(r.TempChange)
                                     /\ (IF late THEN r.Year >= PivotYear + 1
                                                 ELSE r.Year <= PivotYear))
    IN  [i \in DOMAIN rows |-> Val(rows[i].TempChange)]

\* s is the sample standard deviation of vs, in Scale units, rounded down:
\* s^2 <= Scale^2 * (n * sum(x^2) - sum(x)^2) / (n * (n - 1)) < (s + 1)^2.
IsSampleStd(s, vs) ==
    LET n == Len(vs)
        a == (n * SumSeq([i \in DOMAIN vs |-> vs[i] * vs[i]]) - SumSeq(vs) * SumSeq(vs))
                 * Scale * Scale
        b == n * (n - 1)
    IN  /\ n >= 2
        /\ ~IsNaN(s)
        /\ Val(s) * Val(s) * b <= a
        /\ a < (Val(s) + 1) * (Val(s) + 1) * b

(* C3: the table decreasing, from the annual table split at Year <= 1992 / *)
(* Year >= 1993 with the per-country sample standard deviation of each     *)
(* split, has no country absent from a split or with fewer than 2 data     *)
(* points in a split; every Delta_Std (Std_Late - Std_Early) in it is       *)
(* below 0; and its rows are in ascending order of Delta_Std.               *)
C3_DecreasingVariability ==
    (AfterCharts /\ ns.chart_country = "All") =>
        /\ \A r \in RowSet(ns.decreasing) :
               /\ IsSampleStd(r.Std_Early, SplitValues(r.Country, FALSE))
               /\ IsSampleStd(r.Std_Late, SplitValues(r.Country, TRUE))
               /\ ~IsNaN(r.Delta_Std)
               /\ Val(r.Delta_Std) = Val(r.Std_Late) - Val(r.Std_Early)
               /\ Val(r.Delta_Std) < 0
        /\ \A i, j \in DOMAIN ns.decreasing.rows :
               i < j => Val(ns.decreasing.rows[i].Delta_Std)
                            <= Val(ns.decreasing.rows[j].Delta_Std)

\* Three countries in the table, the last listed with the largest fall not
\* first in the country order, and a run in which a country with a single
\* point in a split is left out.
C3_Witness ==
    /\ pc = "done"
    /\ Len(ns.decreasing.rows) = 3
    /\ ns.decreasing.rows[1].Country = "India"
    /\ ns.decreasing.rows[2].Country = "USA"
    /\ Val(ns.decreasing.rows[2].Delta_Std) < Val(ns.decreasing.rows[3].Delta_Std)

C3_WitnessLeftOut ==
    /\ pc = "done"
    /\ Len(SplitValues("USA", FALSE)) = 1
    /\ Len(SplitValues("USA", TRUE)) >= 2
    /\ "USA" \notin Range(Column(ns.decreasing, "Country"))
    /\ Len(ns.decreasing.rows) = 2

-----------------------------------------------------------------------------
\* The entity whose monthly and gas rows the charts tab shows.
ShownEntity == IF ns.chart_country = "All" THEN "World" ELSE ns.chart_country

YearsOfRows(rows) == {r.Year : r \in rows}

(* C4, as stated: every filter passes everything through when its           *)
(* selection is "All": with entity "All" the annual, monthly and gas views  *)
(* keep the rows of every entity, and with year "All" they keep the rows of *)
(* every year within year_range.                                            *)
C4_AllIsPassThrough ==
    AfterCharts =>
        /\ ns.chart_country = "All" =>
               /\ {r.Country : r \in RowSet(ns.filtered_chart)} =
                      {r.Country : r \in {q \in RowSet(LongAnnual) :
                          InRange(q, ns.dev_year_range) /\ YearOk(q, ns.chart_year)}}
               /\ {r.Entity : r \in RowSet(ns.df_monthly_filtered)} =
                      {r.Entity : r \in {q \in RowSet(monthly_csv) :
                          InRange(q, ns.dev_year_range) /\ YearOk(q, ns.chart_year)}}
               /\ {r.Entity : r \in RowSet(ns.gas_df)} =
                      {r.Entity : r \in {q \in RowSet(gas_csv) :
                          InRange(q, ns.dev_year_range)}}
        /\ ns.chart_year = YearAll =>
               /\ YearsOfRows(RowSet(ns.filtered_chart)) =
                      YearsOfRows({q \in RowSet(LongAnnual) :
                          InRange(q, ns.dev_year_range)
                          /\ EntityOk(q, ns.chart_country)})
               /\ YearsOfRows(RowSet(ns.df_monthly_filtered)) =
                      YearsOfRows({q \in RowSet(monthly_csv) :
                          InRange(q, ns.dev_year_range)
                          /\ (ns.chart_country = "All" \/ q.Entity = ns.chart_country)})
               /\ YearsOfRows(RowSet(ns.gas_df)) =
                      YearsOfRows({q \in RowSet(gas_csv) :
                          InRange(q, ns.dev_year_range)
                          /\ (ns.chart_country = "All" \/ q.Entity = ns.chart_country)})

(* C4, amended: with entity "All" the annual view keeps the rows of every  *)
(* entity, while the monthly and gas views keep the rows of the entity      *)
(* "World" only; with year "All" the annual and monthly views keep, for the *)
(* entity shown, the rows of every year within year_range, and the gas view *)
(* keeps them whatever the selected year.                                   *)
C4_AllSelectsWorld ==
    AfterCharts =>
        /\ ns.chart_country = "All" =>
               /\ {r.Country : r \in RowSet(ns.filtered_chart)} =
                      {r.Country : r \in {q \in RowSet(LongAnnual) :
                          InRange(q, ns.dev_year_range) /\ YearOk(q, ns.chart_year)}}
               /\ {<<r.Entity, r.Year, r.Month>> : r \in RowSet(ns.df_monthly_filtered)} =
                      {<<r.Entity, r.Year, r.Month>> : r \in {q \in RowSet(monthly_csv) :
                          /\ q.Entity = "World"
                          /\ InRange(q, ns.dev_year_range)
                          /\ YearOk(q, ns.chart_year)}}
               /\ {<<r.Entity, r.Year>> : r \in RowSet(ns.gas_df)} =
                      {<<r.Entity, r.Year>> : r \in {q \in RowSet(gas_csv) :
                          q.Entity = "World" /\ InRange(q, ns.dev_year_range)}}
        /\ ns.chart_year = YearAll =>
               /\ YearsOfRows(RowSet(ns.filtered_chart)) =
                      YearsOfRows({q \in RowSet(LongAnnual) :
                          InRange(q, ns.dev_year_range)
                          /\ EntityOk(q, ns.chart_country)})
               /\ YearsOfRows(RowSet(ns.df_monthly_filtered)) =
                      YearsOfRows({q \in RowSet(monthly_csv) :
                          InRange(q, ns.dev_year_range) /\ q.Entity = ShownEntity})
        /\ YearsOfRows(RowSet(ns.gas_df)) =
               YearsOfRows({q \in RowSet(gas_csv) :
                   InRange(q, ns.dev_year_range) /\ q.Entity = ShownEntity})

\* "All" and "All" on files whose monthly and gas tables hold "World" and
\* another entity.
C4_Witness ==
    /\ pc = "done"
    /\ ns.chart_country = "All"
    /\ ns.chart_year = YearAll
    /\ Cardinality({r.Country : r \in RowSet(ns.filtered_chart)}) > 1
    /\ {r.Entity : r \in RowSet(monthly_csv)} = {"World", "USA"}
    /\ {r.Entity : r \in RowSet(gas_csv)} = {"World", "USA"}
    /\ ~IsEmpty(ns.df_monthly_filtered)
    /\ ~IsEmpty(ns.gas_df)

-----------------------------------------------------------------------------
(* C6, as stated: after the filter and aggregation steps each loaded       *)
(* source table has the rows and the columns it had after load and         *)
(* reshape, and its name is still bound to the unfiltered table.           *)
C6_SourcesUntouched ==
    AfterLoad =>
        /\ ns.df_long = LongAnnual
        /\ ns.df_monthly = LoadMonthly(monthly_csv)
        /\ ns.df2 = gas_csv
        /\ ns.df_contribution = contribution_csv

(* C6, amended: the monthly and the contribution tables keep their rows    *)
(* and columns; the long annual table keeps its rows and columns and gains *)
(* one column, YearGroup, in the developed-vs-developing tab; the name df2 *)
(* is bound, from the filter step on, to the gas table's rows within        *)
(* year_range (same columns, same order), not to the unfiltered table.      *)
C6_Frame ==
    AfterLoad =>
        /\ ns.df_monthly = LoadMonthly(monthly_csv)
        /\ ns.df_contribution = contribution_csv
        /\ IF AfterDev
           THEN /\ ns.df_long.cols = Append(LongAnnual.cols, "YearGroup")
                /\ Len(ns.df_long.rows) = Len(LongAnnual.rows)
                /\ \A i \in DOMAIN LongAnnual.rows :
                       /\ DOMAIN ns.df_long.rows[i] =
                              (DOMAIN LongAnnual.rows[i]) \cup {"YearGroup"}
                       /\ \A c \in DOMAIN LongAnnual.rows[i] :
                              ns.df_long.rows[i][c] = LongAnnual.rows[i][c]
           ELSE ns.df_long = LongAnnual
        /\ IF AfterFilters
           THEN /\ ns.df2.cols = gas_csv.cols
                /\ ns.df2.rows =
                       SelectSeq(gas_csv.rows,
                                 LAMBDA r : InRange(r, ns.dev_year_range))
           ELSE ns.df2 = gas_csv

\* A completed run whose df2 has lost rows and whose df_long has YearGroup.
C6_Witness ==
    /\ pc = "done"
    /\ Len(ns.df2.rows) < Len(gas_csv.rows)
    /\ ns.dev_year_range = <<ns.year_min, ns.year_max>>
    /\ \A r \in RowSet(ns.df_long) : "YearGroup" \in DOMAIN r

-----------------------------------------------------------------------------
(* C7, as stated: when a filtered view has zero rows, the aggregation    *)
(* downstream of it (the yearly mean of the monthly view, the variability  *)
(* table of the annual view, the gas reshape of the gas view) runs on zero *)
(* rows and yields an empty result.                                        *)
C7_EmptyViewEmptyAggregates ==
    AfterCharts =>
        /\ IsEmpty(ns.df_monthly_filtered) => IsEmpty(ns.yearly_averages)
        /\ IsEmpty(ns.gas_df) => IsEmpty(ns.gas_long)
        /\ (IsEmpty(ns.filtered_chart) /\ ns.bar # <<>>) => IsEmpty(ns.bar[1])

(* C7, amended: each aggregation is empty when its own input view has zero *)
(* rows: the yearly mean (and the merged monthly table) when the monthly   *)
(* view has no row of the entity shown, the gas reshape when the gas table *)
(* within year_range has no row of it.  The variability table reads no     *)
(* filtered view: with entity "All" it is computed from the whole long     *)
(* annual table whatever the filters select, and otherwise there is no bar.*)
C7_EmptyInEmptyOut ==
    AfterCharts =>
        /\ (\A r \in RowSet(ns.filtered_chart_monthly) : r.Entity # ShownEntity) =>
               /\ IsEmpty(ns.yearly_averages)
               /\ IsEmpty(ns.df_monthly_filtered)
        /\ (\A r \in RowSet(ns.df2) : r.Entity # ShownEntity) =>
               /\ IsEmpty(ns.gas_df)
               /\ IsEmpty(ns.gas_long)
        /\ IF ns.chart_country = "All"
           THEN /\ ns.decreasing = Decreasing(LongAnnual)
                /\ ns.bar = <<ns.decreasing>>
           ELSE ns.bar = <<>>

\* The selected year is outside year_range: the annual and monthly views
\* are empty, and the variability table and the gas reshape are not.
C7_Witness ==
    /\ pc = "done"
    /\ ns.chart_country = "All"
    /\ IsEmpty(ns.filtered_chart)
    /\ IsEmpty(ns.filtered_chart_monthly)
    /\ "World" \in Range(Column(monthly_csv, "Entity"))
    /\ IsEmpty(ns.yearly_averages)
    /\ ~IsEmpty(ns.decreasing)
    /\ ~IsEmpty(ns.gas_long)

\* An entity offered by the selector that has no monthly or gas rows.
C7_WitnessNoRows ==
    /\ pc = "done"
    /\ ns.chart_country = "India"
    /\ ~IsEmpty(ns.filtered_chart)
    /\ ~IsEmpty(ns.filtered_chart_monthly)
    /\ IsEmpty(ns.df_monthly_filtered)
    /\ IsEmpty(ns.gas_long)

-----------------------------------------------------------------------------
\* What a session that starts with the current widget values shows: one run
\* from an empty namespace.
FreshRun == DevStep(ChartsStep(FiltersStep(WidgetsStep(LoadStep(<<>>)))))

\* The names whose values the page shows (lines 278-287, 352, 385, 395-409).
ShownNames ==
    {"scatter_src", "df_monthly_filtered", "bar", "gas_long", "dev_bar", "dev_avg",
     "filt_contribution", "filtered_chart", "gas_df", "df_contribution",
     "chart_country", "dev_year_range", "name"}

(* C10: after any sequence of interactions, what a completed run shows is  *)
(* what a fresh session with the same FilterState shows: nothing an        *)
(* earlier run selected or narrowed (the gas table in particular) is left  *)
(* in a later run.                                                          *)
C10_DependsOnlyOnFilterState ==
    pc = "done" => \A k \in ShownNames : ns[k] = FreshRun[k]

\* The year range was narrowed and then widened back to the full range,
\* and the gas table is whole again.
C10_Witness ==
    /\ pc = "done"
    /\ "dev_year_range" \in DOMAIN session
    /\ session["dev_year_range"] = <<ns.year_min, ns.year_max>>
    /\ "chart_country" \in DOMAIN session
    /\ Len(ns.df2.rows) =
           Cardinality({i \in DOMAIN gas_csv.rows :
               InRange(gas_csv.rows[i], <<ns.year_min, ns.year_max>>)})
    /\ Len(ns.df2.rows) > 0

-----------------------------------------------------------------------------
(* The part of C2 that holds: dev_avg has one row per (Year, DevStatus)    *)
(* pair of the whole long annual table, with the mean of the pair's         *)
(* TempChange values, whatever the FilterState.                             *)
C2_DevAvgOverAllYears ==
    AfterDev =>
        /\ \A i \in DOMAIN ns.dev_avg.rows :
               LET r == ns.dev_avg.rows[i]
               IN  /\ r.TempChange = Mean(TempsOf(r.Year, r.DevStatus))
                   /\ \A j \in DOMAIN ns.dev_avg.rows :
                          (ns.dev_avg.rows[j].Year = r.Year
                           /\ ns.dev_avg.rows[j].DevStatus = r.DevStatus) => j = i
        /\ {<<r.Year, r.DevStatus>> : r \in RowSet(ns.dev_avg)}
               = PairsIn(<<ns.year_min, ns.year_max>>)

=============================================================================
